---- MODULE Spec2Model ----
(***************************************************************************)
(* Model of the outbound dial coordinator of go-libp2p-swarm               *)
(* (src/swarm_conn.go, second half: the dial code).                        *)
(*                                                                         *)
(* Callers invoke dialPeer; dialPeer is gated by the connection registry,  *)
(* the backoff registry and the dial sync; one dial effort per peer runs   *)
(* doDial -> dial -> dialAddrs, which races the peer's addresses through   *)
(* the dial limiter; each admitted job runs dialAddr on a transport.       *)
(*                                                                         *)
(* Code that the repository keeps outside src/swarm_conn.go (the dial      *)
(* sync, the dial limiter, the connection registry with addConn and        *)
(* bestConnToPeer) is modelled from spec.md sections 4.B, 4.C, 4.F and 6.  *)
(* Time is counted in seconds.                                             *)
(***************************************************************************)
EXTENDS Integers, Sequences, FiniteSets, TLC

\* ------------------------------------------------------------------ bounds
\* Largest clock value of the dial model.
MaxTime == 5
\* Number of dialPeer invocations (callers) in one behaviour.
MaxCalls == 2
\* Largest tries count explored by the backoff-registry specification.
MaxTries == 19
\* Largest clock value of the backoff-registry specification.
MaxTimeB == 2
\* Limiter caps of the model.  The program's defaults are ConcurrentFdDials
\* (160) and DefaultPerPeerRateLimit (8); the model runs the limiter with
\* caps small enough that both bind with the addresses below.
FdLimit == 1
PerPeerLimit == 1
\* Longest candidate list drawn by the filter and race specifications.
MaxAddrs == 2

\* ------------------------------------------------------- program constants
ConcurrentFdDials == 160
DefaultPerPeerRateLimit == 8
DialAttempts == 1
BackoffBase == 5
BackoffCoef == 1
BackoffMax == 300

\* ---------------------------------------------------------------- universe
local == "self"
InvalidPeer == ""
RemotePeers == {"p1", "p2"}
\* The peers that connect to us while we dial.
InboundPeers == {"p2"}
AllPeers == RemotePeers \cup {local}
Targets == AllPeers
\* A caller is one invocation of dialPeer.
Callers == 1..MaxCalls
Efforts == 1..MaxCalls

\* The peer store's address book (PeerStore.addrs).  aL and aW are our own
\* listen addresses (aL a plain /ip4 address, aW a longer protocol stack that
\* no peer advertises in the dial model), aB is blocked by the policy filter,
\* aN has no transport, aK is an IPv6 link-local address.
Addrs(p) ==
    CASE p = "p1" -> <<"a1">>
      [] p = "p2" -> <<"a2", "aL", "aB", "a3", "aN", "aK">>
      [] OTHER -> <<>>
AllAddrs == {"a1", "a2", "a3", "aL", "aW", "aB", "aN", "aK"}
InterfaceListenAddresses == {"aL", "aW"}
\* len(protos) == 2 && protos[0] is /ip4 or /ip6
IsPlainIPAddr(a) == a \in {"a1", "a2", "a3", "aL", "aB", "aK"}
AddrBlocked(a) == a = "aB"
TransportForDialing(a) == IF a = "aN" THEN "none" ELSE "tcp"
CanDialTransport(t, a) == t = "tcp"
AddrOverNonLocalIP(a) == a # "aK"
IsFdConsuming(a) == a \in {"a1", "a2"}
HasPubKey(a) == a \in {"a1", "a3"}
\* Addresses whose transport hands back a connection, maybe to another peer.
Misbehaves(a) == a = "a3"
Stranger == "px"

NilAddrs == <<"nil">>
NoConn == [remote |-> "none", addr |-> "none", eff |-> 0]
InboundConn(p) == [remote |-> p, addr |-> "inbound", eff |-> 0]

\* ------------------------------------------------------------------ errors
\* An error is a sequence of strings: the outermost wrapper first.
Nil == <<>>
ErrDialBackoff == <<"dial backoff">>
ErrDialFailed == <<"dial attempt failed">>
ErrDialToSelf == <<"dial to self attempted">>
ErrNoTransport == <<"no transport for protocol">>
ErrInvalidPeer == <<"invalid peer id">>
ErrNoRemoteAddrs == <<"no remote addresses">>
ErrNoAddresses == <<"no addresses">>
ErrNoGoodAddresses == <<"no good addresses">>
ErrCanceled == <<"context canceled">>
ErrDeadlineExceeded == <<"context deadline exceeded">>
\* the error of the transport that dials address a
ErrRefused(a) == <<"refused", a>>
ErrAddConn == <<"add conn failed">>
ErrBugInTransport == <<"BUG in transport">>
Wrap(tag, e) == <<tag>> \o e

Ok(c) == [conn |-> c, err |-> Nil]
Fail(e) == [conn |-> NoConn, err |-> e]
NoResult == [conn |-> NoConn, err |-> Nil]

VARIABLES
    now,          \* the clock (time.Now), in seconds
    backf,        \* DialBackoff.entries: peer -> [tries, until]; tries = 0: no entry
    consec,       \* history: AddBackoff calls on the peer since its last Clear
    lastAdd,      \* history: the clock at the peer's last AddBackoff
    conns,        \* the connection registry: peer -> set of connections
    pubkeys,      \* the peer store's key book: peers whose public key is known
    open,         \* connections a transport produced that nobody has closed
    pc,           \* each caller's position in dialPeer
    target,       \* each caller's peer argument
    res,          \* each caller's return value
    waitOn,       \* the dial effort the caller waits on (0: none)
    dials,        \* the dial sync's table: peer -> the effort in progress (0: none)
    epc,          \* each effort's position in doDial / dial / dialAddrs
    epeer,        \* each effort's peer
    ectx,         \* each effort's context
    remoteAddrs,  \* dialAddrs: the addresses left in the channel, or NilAddrs
    active,       \* dialAddrs: jobs submitted and not yet reported
    exitErr,      \* dialAddrs: the error to return
    ret,          \* each effort's pending return value
    jobs,         \* the limiter's dial jobs: <<addr, effort>> -> [st, res]
    lim,          \* the limiter's caps, counters and queues
    peerAddrs,    \* the peer store's address book: peer -> sequence of addresses
    ctxExit       \* history: dialAddrs returned on ctx.Done ("idle": with no job
                  \* outstanding, "pending": with jobs outstanding), or "no"

vars == <<now, backf, consec, lastAdd, conns, pubkeys, open, pc, target,
          res, waitOn, dials, epc, epeer, ectx, remoteAddrs, active,
          exitErr, ret, jobs, lim, peerAddrs, ctxExit>>

backoffVars == <<now, backf, consec, lastAdd>>
connVars == <<conns, pubkeys, open>>
callerVars == <<pc, target, res, waitOn>>
effortVars == <<dials, epc, epeer, ectx, remoteAddrs, active, exitErr, ret>>
limiterVars == <<jobs, lim>>
historyVars == <<ctxExit>>

\* --------------------------------------------------------- backoff registry
NoEntry == [tries |-> 0, until |-> 0]

\* Backoff with the time comparison turned around (After for Before).
BackoffAfter(db, p, t) == db[p].tries # 0 /\ t > db[p].until

\* DialBackoff.Backoff: found && time.Now().Before(bp.until)
Backoff(db, p, t) == db[p].tries # 0 /\ t < db[p].until

\* backoffTime without the cap at BackoffMax.
backoffTimeUncapped(tries) == BackoffBase + BackoffCoef * (tries * tries)

\* The duration AddBackoff computes for an entry that already has `tries` tries.
backoffTime(tries) ==
    LET bt == BackoffBase + BackoffCoef * (tries * tries)
    IN IF bt > BackoffMax THEN BackoffMax ELSE bt

\* AddBackoff that counts two tries for one call.
AddBackoffTwice(db, p, t) ==
    [db EXCEPT ![p] = [tries |-> db[p].tries + 2, until |-> t + BackoffBase]]

\* DialBackoff.AddBackoff at clock t
AddBackoff(db, p, t) ==
    IF db[p].tries = 0
    THEN [db EXCEPT ![p] = [tries |-> 1, until |-> t + BackoffBase]]
    ELSE [db EXCEPT ![p] = [tries |-> db[p].tries + 1,
                            until |-> t + backoffTime(db[p].tries)]]

\* Clear that leaves the entry in place.
ClearKeepsEntry(db, p) == db

\* DialBackoff.Clear
Clear(db, p) == [db EXCEPT ![p] = NoEntry]


\* ------------------------------------------------------------ address filter
\* Swarm.canDial
canDial(a) ==
    LET t == TransportForDialing(a) IN t # "none" /\ CanDialTransport(t, a)

\* addrutil.FilterAddrs: the addresses every filter accepts, in input order
RECURSIVE FilterAddrs(_, _)
FilterAddrs(addrs, keep) ==
    IF addrs = <<>> THEN <<>>
    ELSE IF Head(addrs) \in keep
         THEN <<Head(addrs)>> \o FilterAddrs(Tail(addrs), keep)
         ELSE FilterAddrs(Tail(addrs), keep)

\* filterKnownUndialables without the policy filter and the transport check.
filterOnlyOurAddrs(addrs) ==
    LET ourAddrs == {a \in InterfaceListenAddresses : IsPlainIPAddr(a)}
        keep == {a \in AllAddrs : a \notin ourAddrs /\ AddrOverNonLocalIP(a)}
    IN FilterAddrs(addrs, keep)

\* Swarm.filterKnownUndialables
filterKnownUndialables(addrs) ==
    LET ourAddrs == {a \in InterfaceListenAddresses : IsPlainIPAddr(a)}
        keep == {a \in AllAddrs : /\ a \notin ourAddrs
                                  /\ canDial(a)
                                  /\ AddrOverNonLocalIP(a)
                                  /\ ~AddrBlocked(a)}
    IN FilterAddrs(addrs, keep)

\* ------------------------------------------------------------------ contexts
\* ctx.Err() of a context whose state is s
ctxErr(s) == IF s = "DeadlineExceeded" THEN ErrDeadlineExceeded ELSE ErrCanceled

\* ---------------------------------------------------------------- dialPeer
\* dialPeer's entry checks: p.Validate() and the dial-to-self check.
\* Nil: the call goes on.  (dialPeerEntryNoSelfCheck: the entry checks
\* without the dial-to-self check.)
dialPeerEntryNoSelfCheck(p) ==
    IF p = InvalidPeer THEN ErrInvalidPeer ELSE Nil

dialPeerEntry(p) ==
    IF p = InvalidPeer THEN ErrInvalidPeer
    ELSE IF p = local THEN ErrDialToSelf
    ELSE Nil

\* bestConnToPeerWrapper / bestConnToPeerFallbackWrapper: a connection of the
\* registry to the peer, or NoConn.  Which of several is "best" is not fixed.
bestConnToPeer(cs) == IF cs = {} THEN {NoConn} ELSE cs

\* A check that never finds the connection.
haveConnNever(c) == FALSE

\* `if conn != nil { return conn, nil }` of dialPeer and doDial
haveConn(c) == c # NoConn

\* doDial: `if err != context.Canceled` guards AddBackoff
shouldAddBackoff(err) == err # ErrCanceled

\* dialAddrs, on ctx.Done: `if exitErr == defaultDialFail { exitErr = ctx.Err() }`
ctxExitErr(cur, ctxerr) == IF cur = ErrNoRemoteAddrs THEN ctxerr ELSE cur

\* dial, up to the call of dialAddrs: the addresses to race, or the error.
dialPrelude(p) ==
    IF p = local THEN [addrs |-> <<>>, err |-> ErrDialToSelf]
    ELSE IF Len(peerAddrs[p]) = 0 THEN [addrs |-> <<>>, err |-> ErrNoAddresses]
    ELSE LET goodAddrs == filterKnownUndialables(peerAddrs[p])
         IN IF Len(goodAddrs) = 0
            THEN [addrs |-> <<>>, err |-> ErrNoGoodAddresses]
            ELSE [addrs |-> goodAddrs, err |-> Nil]

\* dialAddr that trusts the transport: no check of the connection's RemotePeer.
dialAddrTrusting(p, a, tr) ==
    IF local = p THEN [conn |-> NoConn, err |-> ErrDialToSelf, closes |-> {}]
    ELSE IF TransportForDialing(a) = "none"
    THEN [conn |-> NoConn, err |-> ErrNoTransport, closes |-> {}]
    ELSE IF tr.err # Nil
    THEN [conn |-> NoConn, err |-> Wrap("dial attempt failed", tr.err), closes |-> {}]
    ELSE [conn |-> tr.conn, err |-> Nil, closes |-> {}]

\* dialAddr that leaves a connection to the wrong peer open.
dialAddrLeaky(p, a, tr) ==
    IF local = p THEN [conn |-> NoConn, err |-> ErrDialToSelf, closes |-> {}]
    ELSE IF TransportForDialing(a) = "none"
    THEN [conn |-> NoConn, err |-> ErrNoTransport, closes |-> {}]
    ELSE IF tr.err # Nil
    THEN [conn |-> NoConn, err |-> Wrap("dial attempt failed", tr.err), closes |-> {}]
    ELSE IF tr.conn.remote # p
    THEN [conn |-> NoConn, err |-> ErrBugInTransport, closes |-> {}]
    ELSE [conn |-> tr.conn, err |-> Nil, closes |-> {}]

\* Swarm.dialAddr, given what the transport's Dial returned (tr).
\* closes: the connection dialAddr closes itself.
dialAddr(p, a, tr) ==
    IF local = p THEN [conn |-> NoConn, err |-> ErrDialToSelf, closes |-> {}]
    ELSE IF TransportForDialing(a) = "none"
    THEN [conn |-> NoConn, err |-> ErrNoTransport, closes |-> {}]
    ELSE IF tr.err # Nil
    THEN [conn |-> NoConn, err |-> Wrap("dial attempt failed", tr.err), closes |-> {}]
    ELSE IF tr.conn.remote # p
    THEN [conn |-> NoConn, err |-> ErrBugInTransport, closes |-> {tr.conn}]
    ELSE [conn |-> tr.conn, err |-> Nil, closes |-> {}]

\* ------------------------------------------------------------------ limiter
JobIds == AllAddrs \X Efforts
NoJob == <<"none", 0>>
NoJobState == [st |-> "none", res |-> NoResult]
jobsOfPeer(p) == {j \in JobIds : epeer[j[2]] = p}

\* Admission that ignores both caps.
AdmitUncapped(l, j, p) ==
    [lim |-> [l EXCEPT !.activePerPeer[p] = @ + 1,
                       !.fdConsuming = IF IsFdConsuming(j[1]) THEN @ + 1 ELSE @],
     run |-> TRUE]

\* add_dial_job, steps 2 to 4: park the job or take the slots and run it.
Admit(l, j, p) ==
    IF l.activePerPeer[p] >= l.perPeerLimit
    THEN [lim |-> [l EXCEPT !.waitingOnPeerLimit[p] = @ \cup {j}], run |-> FALSE]
    ELSE IF IsFdConsuming(j[1]) /\ l.fdConsuming >= l.fdLimit
    THEN [lim |-> [l EXCEPT !.waitingOnFd = @ \cup {j}], run |-> FALSE]
    ELSE [lim |-> [l EXCEPT !.activePerPeer[p] = @ + 1,
                            !.fdConsuming = IF IsFdConsuming(j[1]) THEN @ + 1 ELSE @],
          run |-> TRUE]

\* The counters after job j has completed.
Release(l, j, p) ==
    [l EXCEPT !.activePerPeer[p] = @ - 1,
              !.fdConsuming = IF IsFdConsuming(j[1]) THEN @ - 1 ELSE @]

\* A parked job to wake from queue q (any of them), or NoJob.
Wakeable(q) == IF q = {} THEN {NoJob} ELSE q

\* Wake job k: take it off its queue and admit it again.
Wake(l, k, p) ==
    IF k = NoJob THEN [lim |-> l, run |-> FALSE]
    ELSE Admit([l EXCEPT !.waitingOnFd = @ \ {k},
                          !.waitingOnPeerLimit[p] = @ \ {k}], k, p)

\* clear_all_peer_dials: drop the peer's parked jobs from both queues.
clearAllPeerDials(l, p) ==
    [l EXCEPT !.waitingOnFd = @ \ jobsOfPeer(p),
              !.waitingOnPeerLimit[p] = {}]

\* ------------------------------------------------------------------- Init
\* A limiter with the caps fd and perPeer, nothing running and nothing parked.
newDialLimiter(fd, perPeer) ==
    [fdLimit |-> fd,
     perPeerLimit |-> perPeer,
     fdConsuming |-> 0,
     activePerPeer |-> [p \in AllPeers |-> 0],
     waitingOnFd |-> {},
     waitingOnPeerLimit |-> [p \in AllPeers |-> {}]]

\* The swarm after construction, but for the limiter and the address book.
InitSwarm ==
    /\ now = 0
    /\ backf = [p \in AllPeers |-> NoEntry]
    /\ consec = [p \in AllPeers |-> 0]
    /\ lastAdd = [p \in AllPeers |-> 0]
    /\ conns = [p \in AllPeers |-> {}]
    /\ pubkeys = {}
    /\ open = {}
    /\ pc = [c \in Callers |-> "idle"]
    /\ target = [c \in Callers |-> InvalidPeer]
    /\ res = [c \in Callers |-> NoResult]
    /\ waitOn = [c \in Callers |-> 0]
    /\ dials = [p \in AllPeers |-> 0]
    /\ epc = [e \in Efforts |-> "none"]
    /\ epeer = [e \in Efforts |-> InvalidPeer]
    /\ ectx = [e \in Efforts |-> "live"]
    /\ remoteAddrs = [e \in Efforts |-> NilAddrs]
    /\ active = [e \in Efforts |-> 0]
    /\ exitErr = [e \in Efforts |-> Nil]
    /\ ret = [e \in Efforts |-> NoResult]
    /\ jobs = [j \in JobIds |-> NoJobState]
    /\ ctxExit = [e \in Efforts |-> "no"]

Init ==
    /\ InitSwarm
    /\ lim = newDialLimiter(FdLimit, PerPeerLimit)
    /\ peerAddrs = [p \in AllPeers |-> Addrs(p)]

\* ------------------------------------------------------------- environment
\* The clock advances, by the base backoff time.
Tick ==
    /\ UNCHANGED peerAddrs
    /\ now + BackoffBase <= MaxTime
    /\ now' = now + BackoffBase
    /\ UNCHANGED <<backf, consec, lastAdd, connVars, callerVars, effortVars,
                   limiterVars, historyVars>>

\* Another path (the inbound listener) registers a connection to peer p.
\* Whether that registration clears p's backoff entry is not fixed.
Inbound(p) ==
    /\ UNCHANGED peerAddrs
    /\ InboundConn(p) \notin conns[p]
    /\ conns' = [conns EXCEPT ![p] = @ \cup {InboundConn(p)}]
    /\ open' = open \cup {InboundConn(p)}
    /\ \E clears \in BOOLEAN :
          /\ backf' = IF clears THEN Clear(backf, p) ELSE backf
          /\ consec' = IF clears THEN [consec EXCEPT ![p] = 0] ELSE consec
    /\ UNCHANGED <<now, lastAdd, pubkeys, callerVars, effortVars, limiterVars,
                   historyVars>>

\* ----------------------------------------------------------------- callers
\* dialPeer(ctx, p) is called: p.Validate() and the dial-to-self check.
Call(c, p) ==
    /\ UNCHANGED peerAddrs
    /\ pc[c] = "idle"
    /\ c > 1 => pc[c - 1] # "idle"      \* callers are alike: they call in order
    /\ target' = [target EXCEPT ![c] = p]
    /\ LET err == dialPeerEntry(p)
       IN IF err # Nil
          THEN /\ res' = [res EXCEPT ![c] = Fail(err)]
               /\ pc' = [pc EXCEPT ![c] = "done"]
          ELSE /\ res' = [res EXCEPT ![c] = NoResult]
               /\ pc' = [pc EXCEPT ![c] = "bestConn"]
    /\ UNCHANGED <<backoffVars, connVars, waitOn, effortVars, limiterVars,
                   historyVars>>

\* dialPeer: check if we already have an open connection first.
CheckConn(c) ==
    /\ UNCHANGED peerAddrs
    /\ pc[c] = "bestConn"
    /\ \E k \in bestConnToPeer(conns[target[c]]) :
          IF haveConn(k)
          THEN /\ res' = [res EXCEPT ![c] = Ok(k)]
               /\ pc' = [pc EXCEPT ![c] = "done"]
          ELSE /\ pc' = [pc EXCEPT ![c] = "backoff"]
               /\ UNCHANGED res
    /\ UNCHANGED <<backoffVars, connVars, target, waitOn,
                   effortVars, limiterVars, historyVars>>

\* dialPeer: if this peer has been backed off, get out.
CheckBackoff(c) ==
    /\ UNCHANGED peerAddrs
    /\ pc[c] = "backoff"
    /\ IF Backoff(backf, target[c], now)
       THEN /\ res' = [res EXCEPT ![c] = Fail(ErrDialBackoff)]
            /\ pc' = [pc EXCEPT ![c] = "done"]
       ELSE /\ pc' = [pc EXCEPT ![c] = "lock"]
            /\ UNCHANGED res
    /\ UNCHANGED <<backoffVars, connVars, target, waitOn,
                   effortVars, limiterVars, historyVars>>

\* A dial sync in which every caller starts an effort of its own.
startsEffortAlways(d) == TRUE

\* The dial sync's decision for a caller that arrives for a peer whose table
\* entry is d: TRUE when the caller starts an effort of its own.
startsEffort(d) == d = 0

\* An effort that has not been used yet.
freshEffort == CHOOSE e \in Efforts :
                  /\ epc[e] = "none"
                  /\ \A f \in Efforts : epc[f] = "none" => e <= f

\* dsync.DialLock: the first caller for a peer starts the dial effort, the
\* others join the effort in progress; all of them then wait.
DialLock(c) ==
    /\ UNCHANGED peerAddrs
    /\ pc[c] = "lock"
    /\ LET p == target[c]
       IN IF startsEffort(dials[p])
          THEN LET e == freshEffort
               IN /\ dials' = [dials EXCEPT ![p] = e]
                  /\ epc' = [epc EXCEPT ![e] = "doDial"]
                  /\ epeer' = [epeer EXCEPT ![e] = p]
                  /\ waitOn' = [waitOn EXCEPT ![c] = e]
          ELSE /\ waitOn' = [waitOn EXCEPT ![c] = dials[p]]
               /\ UNCHANGED <<dials, epc, epeer>>
    /\ pc' = [pc EXCEPT ![c] = "wait"]
    /\ UNCHANGED <<backoffVars, connVars, target, res, ectx,
                   remoteAddrs, active, exitErr, ret, limiterVars, historyVars>>

\* The context of a caller that waits in DialLock is done (it is cancelled,
\* or the DialPeer timeout applied to it expires): the caller returns
\* ctx.Err().  The effort goes on for the callers that still wait; when none
\* is left its context, derived from the caller's, is done for the same
\* reason.
WaitCtx(c, why) ==
    /\ UNCHANGED peerAddrs
    /\ pc[c] = "wait"
    /\ res' = [res EXCEPT ![c] = Fail(ctxErr(why))]
    /\ pc' = [pc EXCEPT ![c] = "done"]
    /\ waitOn' = [waitOn EXCEPT ![c] = 0]
    /\ LET e == waitOn[c]
       IN IF (\A d \in Callers \ {c} : waitOn[d] # e) /\ ectx[e] = "live"
          THEN ectx' = [ectx EXCEPT ![e] = why]
          ELSE UNCHANGED ectx
    /\ UNCHANGED <<backoffVars, connVars, target, dials, epc, epeer,
                   remoteAddrs, active, exitErr, ret, limiterVars, historyVars>>

\* ----------------------------------------------------------------- efforts
\* The effort ends with result r: r goes to every caller that waits on it
\* (dialPeer returns it) and the peer's slot in the dial sync is released.
effortEnds(e, r) ==
    LET W == {c \in Callers : pc[c] = "wait" /\ waitOn[c] = e}
    IN /\ res' = [c \in Callers |-> IF c \in W THEN r ELSE res[c]]
       /\ pc' = [c \in Callers |-> IF c \in W THEN "done" ELSE pc[c]]
       /\ waitOn' = [c \in Callers |-> IF c \in W THEN 0 ELSE waitOn[c]]
       /\ dials' = [dials EXCEPT ![epeer[e]] = 0]
       /\ epc' = [epc EXCEPT ![e] = "done"]
       /\ ret' = [ret EXCEPT ![e] = NoResult]
       /\ ectx' = [ectx EXCEPT ![e] = "live"]
       /\ ctxExit' = [ctxExit EXCEPT ![e] = "no"]

\* dial returns err to doDial, which looks at the registry's fallback view:
\* with a connection there the error is ignored and the connection returned,
\* without one doDial goes on to the backoff.  byCtx records that dialAddrs
\* returned on ctx.Done().
dialFails(e, err, byCtx) ==
    \E k \in bestConnToPeer(conns[epeer[e]]) :
          IF haveConn(k)
          THEN effortEnds(e, Ok(k))
          ELSE /\ ret' = [ret EXCEPT ![e] = Fail(err)]
               /\ epc' = [epc EXCEPT ![e] = "addBackoff"]
               /\ ctxExit' = [ctxExit EXCEPT ![e] = byCtx]
               /\ UNCHANGED <<pc, res, waitOn, dials, ectx>>

\* addConn's entry in the connection registry.
addConnRegistry(cs, p, c) == [cs EXCEPT ![p] = @ \cup {c}]

\* dial, with the connection c that dialAddrs returned: addConn registers it
\* (and, on this success path, the peer's backoff is cleared and the remote
\* public key is added to the peer store), or addConn fails and dial closes
\* the connection and returns the error.
dialSucceeds(e, c) ==
    LET p == epeer[e]
    IN \/ /\ conns' = addConnRegistry(conns, p, c)
          /\ backf' = Clear(backf, p)
          /\ consec' = [consec EXCEPT ![p] = 0]
          /\ pubkeys' = IF HasPubKey(c.addr) THEN pubkeys \cup {p} ELSE pubkeys
          /\ effortEnds(e, Ok(c))
          /\ UNCHANGED open
       \/ /\ open' = open \ {c}
          /\ dialFails(e, ErrAddConn, "no")
          /\ UNCHANGED <<backf, consec, conns, pubkeys>>

\* doDial: the short circuit, then dial up to the call of dialAddrs.
DoDial(e) ==
    /\ UNCHANGED peerAddrs
    /\ epc[e] = "doDial"
    /\ LET p == epeer[e]
       IN \E k \in bestConnToPeer(conns[p]) :
             IF haveConn(k)
             THEN /\ effortEnds(e, Ok(k))
                  /\ UNCHANGED <<remoteAddrs, active, exitErr>>
             ELSE LET d == dialPrelude(p)
                  IN IF d.err # Nil
                     THEN /\ dialFails(e, d.err, "no")
                          /\ UNCHANGED <<remoteAddrs, active, exitErr>>
                     ELSE /\ remoteAddrs' = [remoteAddrs EXCEPT ![e] = d.addrs]
                          /\ active' = [active EXCEPT ![e] = 0]
                          /\ exitErr' = [exitErr EXCEPT ![e] = ErrNoRemoteAddrs]
                          /\ epc' = [epc EXCEPT ![e] = "race"]
                          /\ UNCHANGED <<pc, res, waitOn, dials, ectx, ctxExit,
                                         ret>>
    /\ UNCHANGED <<backoffVars, connVars, target, epeer, limiterVars>>

\* A context whose Done channel never delivers.
ctxDoneNever(s) == FALSE

\* <-ctx.Done() can be received: the context is cancelled or past its deadline.
ctxDone(s) == s # "live"

\* The context of the jobs of effort e's race is done: the race has returned
\* (its deferred cancel) or the effort's context is done.
raceCtxDone(e) == ~(epc[e] = "race" /\ ectx[e] = "live")

\* The results that jobs of effort e are blocked sending on respch.
respReady(e) == {j \in JobIds : j[2] = e /\ jobs[j].st = "posting"}

\* The jobs after dialAddrs' deferred clearAllPeerDials(p).
dropParked(js, p) ==
    [k \in JobIds |-> IF epeer[k[2]] = p /\ js[k].st = "parked"
                      THEN NoJobState ELSE js[k]]

\* A return of dialAddrs without the deferred clearAllPeerDials(p).
raceReturnsNoCleanup(e, js) ==
    /\ remoteAddrs' = [remoteAddrs EXCEPT ![e] = NilAddrs]
    /\ active' = [active EXCEPT ![e] = 0]
    /\ exitErr' = [exitErr EXCEPT ![e] = Nil]
    /\ lim' = lim
    /\ jobs' = js

\* dialAddrs returns from effort e: clearAllPeerDials(p) and cancel() run
\* (deferred); js are the jobs at the return.
raceReturns(e, js) ==
    /\ remoteAddrs' = [remoteAddrs EXCEPT ![e] = NilAddrs]
    /\ active' = [active EXCEPT ![e] = 0]
    /\ exitErr' = [exitErr EXCEPT ![e] = Nil]
    /\ lim' = clearAllPeerDials(lim, epeer[e])
    /\ jobs' = dropParked(js, epeer[e])

\* dialAddrs, second select: take the next address from the channel and hand
\* it to the limiter (limitedDial -> AddDialJob), or find the channel closed.
RaceSubmit(e) ==
    /\ UNCHANGED peerAddrs
    /\ epc[e] = "race"
    /\ remoteAddrs[e] # NilAddrs
    /\ ectx[e] = "live"
    /\ respReady(e) = {}
    /\ IF remoteAddrs[e] = <<>>
       THEN /\ remoteAddrs' = [remoteAddrs EXCEPT ![e] = NilAddrs]
            /\ UNCHANGED <<active, jobs, lim>>
       ELSE LET j == <<Head(remoteAddrs[e]), e>>
                a == Admit(lim, j, epeer[e])
            IN /\ remoteAddrs' = [remoteAddrs EXCEPT ![e] = Tail(@)]
               /\ active' = [active EXCEPT ![e] = @ + 1]
               /\ lim' = a.lim
               /\ jobs' = [jobs EXCEPT ![j] =
                             [st |-> IF a.run THEN "dialing" ELSE "parked",
                              res |-> NoResult]]
    /\ UNCHANGED <<backoffVars, connVars, callerVars, dials, epc, epeer, ectx,
                   exitErr, ret, ctxExit>>

\* Job j completes (finishedDial): its slots are released and one parked job
\* per released slot is woken, the per-peer queue first.
finishedDial(j) ==
    LET p == epeer[j[2]]
        l0 == Release(lim, j, p)
    IN \E k1 \in Wakeable(l0.waitingOnPeerLimit[p]) :
          LET w1 == Wake(l0, k1, p)
          IN \E k2 \in (IF IsFdConsuming(j[1]) THEN Wakeable(w1.lim.waitingOnFd)
                        ELSE {NoJob}) :
                LET w2 == Wake(w1.lim, k2, IF k2 = NoJob THEN p ELSE epeer[k2[2]])
                    started == (IF w1.run THEN {k1} ELSE {})
                                 \cup (IF w2.run THEN {k2} ELSE {})
                IN /\ lim' = w2.lim
                   /\ jobs' = [k \in JobIds |->
                                 IF k = j THEN NoJobState
                                 ELSE IF k \in started
                                 THEN [st |-> "dialing", res |-> NoResult]
                                 ELSE jobs[k]]

\* A race that keeps the first error it received.
recordFirstErr(cur, err) == IF cur = ErrNoRemoteAddrs THEN err ELSE cur

\* dialAddrs, on a failed result: `exitErr = resp.Err`
recordErr(cur, err) == err

\* A receive that takes every result for an error.
respFailedAlways(r) == TRUE

\* dialAddrs, on a result from respch: `if resp.Err != nil`
respFailed(r) == r.err # Nil

\* dialAddrs, either select: a result arrives on respch.  After an error the
\* job that sent it completes and the loop goes on; a connection is returned
\* to dial.
RaceRecv(e, j) ==
    /\ UNCHANGED peerAddrs
    /\ epc[e] = "race"
    /\ j \in respReady(e)
    /\ LET r == jobs[j].res
       IN IF respFailed(r)
          THEN /\ exitErr' = [exitErr EXCEPT ![e] = recordErr(@, r.err)]
               /\ active' = [active EXCEPT ![e] = @ - 1]
               /\ finishedDial(j)
               /\ UNCHANGED <<backoffVars, connVars, callerVars, dials, epc,
                              ectx, ret, remoteAddrs, ctxExit>>
          ELSE /\ raceReturns(e, [jobs EXCEPT ![j] =
                                    [st |-> "finishing", res |-> NoResult]])
               /\ dialSucceeds(e, r.conn)
               /\ UNCHANGED <<now, lastAdd, target>>
    /\ UNCHANGED epeer

\* dialAddrs, either select: ctx.Done().
RaceCtxDone(e) ==
    /\ UNCHANGED peerAddrs
    /\ epc[e] = "race"
    /\ remoteAddrs[e] # NilAddrs \/ active[e] > 0
    /\ ctxDone(ectx[e])
    /\ raceReturns(e, jobs)
    /\ dialFails(e, ctxExitErr(exitErr[e], ctxErr(ectx[e])),
                 IF active[e] > 0 THEN "pending" ELSE "idle")
    /\ UNCHANGED <<backoffVars, connVars, target, epeer>>

\* dialAddrs: the loop ends, no address is left and no job is outstanding.
RaceExit(e) ==
    /\ UNCHANGED peerAddrs
    /\ epc[e] = "race"
    /\ remoteAddrs[e] = NilAddrs /\ active[e] = 0
    /\ raceReturns(e, jobs)
    /\ dialFails(e, exitErr[e], "no")
    /\ UNCHANGED <<backoffVars, connVars, target, epeer>>

\* doDial: AddBackoff unless the error is context.Canceled; return the
\* error as "dial attempt failed: ...".
DoDialFail(e) ==
    /\ UNCHANGED peerAddrs
    /\ epc[e] = "addBackoff"
    /\ LET p == epeer[e]
       IN IF shouldAddBackoff(ret[e].err)
          THEN /\ backf' = AddBackoff(backf, p, now)
               /\ consec' = [consec EXCEPT ![p] = @ + 1]
               /\ lastAdd' = [lastAdd EXCEPT ![p] = now]
          ELSE UNCHANGED <<backf, consec, lastAdd>>
    /\ effortEnds(e, Fail(Wrap("dial attempt failed", ret[e].err)))
    /\ UNCHANGED <<now, connVars, target, epeer, remoteAddrs, active,
                   exitErr, limiterVars>>

\* -------------------------------------------------------------------- jobs
\* What the transport's Dial can return for job j: a connection to the peer
\* or an error; the transport of a misbehaving address returns a connection,
\* to the peer or to a stranger.
tptReturns(j) ==
    LET p == epeer[j[2]]
        right == Ok([remote |-> p, addr |-> j[1], eff |-> j[2]])
        wrong == Ok([remote |-> Stranger, addr |-> j[1], eff |-> j[2]])
    IN IF Misbehaves(j[1]) THEN {right, wrong}
       ELSE {right, Fail(ErrRefused(j[1]))}

\* A running job's dialAddr returns while the race still runs: the job goes
\* on to post the result.  A dial that hangs never takes this step.
JobDial(j) ==
    /\ UNCHANGED peerAddrs
    /\ jobs[j].st = "dialing"
    /\ epc[j[2]] = "race"
    /\ \E tr \in tptReturns(j) :
          LET r == dialAddr(epeer[j[2]], j[1], tr)
          IN /\ jobs' = [jobs EXCEPT ![j] =
                           [st |-> "posting",
                            res |-> [conn |-> r.conn, err |-> r.err]]]
             /\ open' = (IF tr.conn # NoConn THEN open \cup {tr.conn} ELSE open)
                            \ r.closes
    /\ UNCHANGED <<backoffVars, conns, pubkeys, callerVars, effortVars, lim,
                   historyVars>>

\* A running job's dialAddr returns after the race has returned: nobody
\* takes the result, the job closes the connection it got and completes.
JobDialLate(j) ==
    /\ UNCHANGED peerAddrs
    /\ jobs[j].st = "dialing"
    /\ epc[j[2]] # "race"
    /\ finishedDial(j)
    /\ UNCHANGED <<backoffVars, connVars, callerVars, effortVars, ctxExit>>

\* A job whose context is done gives up posting its result, closes the
\* connection it holds and completes.
JobAbandon(j) ==
    /\ UNCHANGED peerAddrs
    /\ jobs[j].st = "posting"
    /\ raceCtxDone(j[2])
    /\ open' = open \ {jobs[j].res.conn}
    /\ finishedDial(j)
    /\ UNCHANGED <<backoffVars, conns, pubkeys, callerVars, effortVars, ctxExit>>

\* The job whose connection dialAddrs returned completes.
JobFinished(j) ==
    /\ UNCHANGED peerAddrs
    /\ jobs[j].st = "finishing"
    /\ finishedDial(j)
    /\ UNCHANGED <<backoffVars, connVars, callerVars, effortVars,
                   ctxExit>>

\* ------------------------------------------------------------ specification
Next ==
    \/ Tick
    \/ \E p \in InboundPeers : Inbound(p)
    \/ \E c \in Callers, p \in Targets : Call(c, p)
    \/ \E c \in Callers : CheckConn(c)
    \/ \E c \in Callers : CheckBackoff(c)
    \/ \E c \in Callers : DialLock(c)
    \/ \E c \in Callers, why \in {"Canceled", "DeadlineExceeded"} : WaitCtx(c, why)
    \/ \E e \in Efforts : DoDial(e)
    \/ \E e \in Efforts : RaceSubmit(e)
    \/ \E e \in Efforts, j \in JobIds : RaceRecv(e, j)
    \/ \E e \in Efforts : RaceCtxDone(e)
    \/ \E e \in Efforts : RaceExit(e)
    \/ \E e \in Efforts : DoDialFail(e)
    \/ \E j \in JobIds : JobDial(j)
    \/ \E j \in JobIds : JobDialLate(j)
    \/ \E j \in JobIds : JobAbandon(j)
    \/ \E j \in JobIds : JobFinished(j)

Spec == Init /\ [][Next]_vars

\* ------------------------------------------- backoff-registry specification
\* The backoff registry on its own: AddBackoff and Clear called in any order
\* on any peer while the clock advances.
BackoffAdd(p) ==
    /\ UNCHANGED peerAddrs
    /\ consec[p] < MaxTries
    /\ backf' = AddBackoff(backf, p, now)
    /\ consec' = [consec EXCEPT ![p] = @ + 1]
    /\ lastAdd' = [lastAdd EXCEPT ![p] = now]
    /\ UNCHANGED <<now, connVars, callerVars, effortVars, limiterVars,
                   historyVars>>

BackoffClear(p) ==
    /\ UNCHANGED peerAddrs
    /\ consec[p] > 0
    /\ backf' = Clear(backf, p)
    /\ consec' = [consec EXCEPT ![p] = 0]
    /\ UNCHANGED <<now, lastAdd, connVars, callerVars, effortVars, limiterVars,
                   historyVars>>

BackoffTick ==
    /\ UNCHANGED peerAddrs
    /\ now < MaxTimeB
    /\ now' = now + 1
    /\ UNCHANGED <<backf, consec, lastAdd, connVars, callerVars, effortVars,
                   limiterVars, historyVars>>

NextBackoff ==
    \/ \E p \in RemotePeers : BackoffAdd(p)
    \/ \E p \in RemotePeers : BackoffClear(p)
    \/ BackoffTick

SpecBackoff == Init /\ [][NextBackoff]_vars

\* The address race on its own: dialAddrs(ctx, p2, remoteAddrs) is running for
\* two callers that share the effort, with the candidate list drawn from
\* RaceInputs (the empty channel included) and a limiter that lets two dials
\* to the peer run side by side.
\* The sequences of at most n elements of S in which no element repeats.
SeqsWithoutRepeats(S, n) ==
    {q \in UNION {[1..m -> S] : m \in 0..n} :
        \A i, k \in DOMAIN q : i # k => q[i] # q[k]}
RaceAddrs == {"a2", "a3"}
RaceInputs == SeqsWithoutRepeats(RaceAddrs, MaxAddrs)

InitRace ==
    /\ now = 0
    /\ backf = [p \in AllPeers |-> NoEntry]
    /\ consec = [p \in AllPeers |-> 0]
    /\ lastAdd = [p \in AllPeers |-> 0]
    /\ conns = [p \in AllPeers |-> {}]
    /\ pubkeys = {}
    /\ open = {}
    /\ pc = [c \in Callers |-> "wait"]
    /\ target = [c \in Callers |-> "p2"]
    /\ res = [c \in Callers |-> NoResult]
    /\ waitOn = [c \in Callers |-> 1]
    /\ dials = [p \in AllPeers |-> IF p = "p2" THEN 1 ELSE 0]
    /\ epc = [e \in Efforts |-> IF e = 1 THEN "race" ELSE "none"]
    /\ epeer = [e \in Efforts |-> IF e = 1 THEN "p2" ELSE InvalidPeer]
    /\ ectx = [e \in Efforts |-> "live"]
    /\ \E input \in RaceInputs :
          /\ remoteAddrs = [e \in Efforts |-> IF e = 1 THEN input ELSE NilAddrs]
          /\ peerAddrs = [p \in AllPeers |-> IF p = "p2" THEN input ELSE <<>>]
    /\ active = [e \in Efforts |-> 0]
    /\ exitErr = [e \in Efforts |-> IF e = 1 THEN ErrNoRemoteAddrs ELSE Nil]
    /\ ret = [e \in Efforts |-> NoResult]
    /\ jobs = [j \in JobIds |-> NoJobState]
    /\ lim = newDialLimiter(FdLimit, PerPeerLimit + 1)
    /\ ctxExit = [e \in Efforts |-> "no"]

NextRace ==
    \/ \E c \in Callers, why \in {"Canceled", "DeadlineExceeded"} : WaitCtx(c, why)
    \/ \E e \in Efforts : RaceSubmit(e)
    \/ \E e \in Efforts, j \in JobIds : RaceRecv(e, j)
    \/ \E e \in Efforts : RaceCtxDone(e)
    \/ \E e \in Efforts : RaceExit(e)
    \/ \E e \in Efforts : DoDialFail(e)
    \/ \E j \in JobIds : JobDial(j)
    \/ \E j \in JobIds : JobDialLate(j)
    \/ \E j \in JobIds : JobAbandon(j)
    \/ \E j \in JobIds : JobFinished(j)

SpecRace == InitRace /\ [][NextRace]_vars

\* The address filter on its own: the peer store holds any candidate list of
\* at most MaxAddrs addresses for p2, and calls of dialPeer run up to the
\* point where dial has filtered the list and is about to race it.
CandidateLists == UNION {[1..m -> AllAddrs] : m \in 0..MaxAddrs}

InitFilter ==
    /\ InitSwarm
    /\ lim = newDialLimiter(FdLimit, PerPeerLimit)
    /\ \E l \in CandidateLists :
          peerAddrs = [p \in AllPeers |-> IF p = "p2" THEN l ELSE Addrs(p)]

NextFilter ==
    \/ \E c \in Callers, p \in Targets : Call(c, p)
    \/ \E c \in Callers : CheckConn(c)
    \/ \E c \in Callers : CheckBackoff(c)
    \/ \E c \in Callers : DialLock(c)
    \/ \E e \in Efforts : DoDial(e)

SpecFilter == InitFilter /\ [][NextFilter]_vars

\* Scheduling.  Every goroutine that can take a step is scheduled in the end:
\* a caller in dialPeer, the goroutine of an effort (whose select takes any
\* case that is ready), the jobs' sends and completions; and the timeout that
\* dialPeer puts on every caller's context fires unless the caller has
\* returned before.  Nothing makes a transport's Dial return, a peer connect
\* to us, a caller cancel or a new call arrive.
callerStep(c) == CheckConn(c) \/ CheckBackoff(c) \/ DialLock(c)
effortStep(e) ==
    \/ DoDial(e)
    \/ RaceSubmit(e)
    \/ \E j \in JobIds : RaceRecv(e, j)
    \/ RaceCtxDone(e)
    \/ RaceExit(e)
    \/ DoDialFail(e)
jobStep == \E j \in JobIds : JobAbandon(j) \/ JobFinished(j)

Fairness ==
    /\ \A c \in Callers :
          WF_vars(callerStep(c)) /\ WF_vars(WaitCtx(c, "DeadlineExceeded"))
    /\ \A e \in Efforts : WF_vars(effortStep(e))
    /\ WF_vars(jobStep)

\* The address race under fair scheduling.
SpecRaceLive == SpecRace /\ Fairness

\* The dial code under fair scheduling, with no inbound connection and the
\* clock standing still.
NextLive ==
    \/ \E c \in Callers, p \in Targets : Call(c, p)
    \/ \E c \in Callers : CheckConn(c)
    \/ \E c \in Callers : CheckBackoff(c)
    \/ \E c \in Callers : DialLock(c)
    \/ \E c \in Callers, why \in {"Canceled", "DeadlineExceeded"} : WaitCtx(c, why)
    \/ \E e \in Efforts : DoDial(e)
    \/ \E e \in Efforts : RaceSubmit(e)
    \/ \E e \in Efforts, j \in JobIds : RaceRecv(e, j)
    \/ \E e \in Efforts : RaceCtxDone(e)
    \/ \E e \in Efforts : RaceExit(e)
    \/ \E e \in Efforts : DoDialFail(e)
    \/ \E j \in JobIds : JobDial(j)
    \/ \E j \in JobIds : JobDialLate(j)
    \/ \E j \in JobIds : JobAbandon(j)
    \/ \E j \in JobIds : JobFinished(j)

SpecLive == Init /\ [][NextLive]_vars /\ Fairness

\* ------------------------------------------------------------------ claims
InProgress == {"doDial", "race", "addBackoff"}
Executing == {"dialing", "posting", "finishing"}
\* The callers that wait on effort e.
waiters(e) == {c \in Callers : pc[c] = "wait" /\ waitOn[c] = e}
\* The registry holds an entry for p with until > now.
entryActive(p) == backf[p].tries >= 1 /\ backf[p].until > now
Min(a, b) == IF a < b THEN a ELSE b

\* C1 (single-flight): after every step at most one dial effort per peer is in
\* progress; a caller that reaches the dial sync while an effort for its peer
\* is in progress joins that effort and starts nothing; when an effort ends,
\* all the callers waiting on it return, with the same result.
C1_SingleFlight ==
    [][ /\ \A p \in AllPeers :
              Cardinality({e \in Efforts : epeer'[e] = p /\ epc'[e] \in InProgress}) <= 1
        /\ \A c \in Callers, e \in Efforts :
              (/\ pc[c] = "lock" /\ pc'[c] = "wait"
               /\ epeer[e] = target[c] /\ epc[e] \in InProgress)
              => epc' = epc /\ jobs' = jobs /\ waitOn'[c] = e
        /\ \A e \in Efforts :
              (epc[e] \in InProgress /\ epc'[e] = "done")
              => \A c \in waiters(e), d \in waiters(e) :
                    pc'[c] = "done" /\ res'[c] = res'[d]
      ]_vars

\* Two callers of dialPeer(p1) have both returned the connection that the one
\* effort made over p1's one address.
C1_Witness ==
    /\ \A c \in {1, 2} : pc[c] = "done" /\ target[c] = "p1"
    /\ res[1] = res[2]
    /\ res[1].conn.addr = "a1"
    /\ epc[1] = "done" /\ epc[2] = "none"

\* C2 (cap adherence): in every reachable state the executing fd-consuming
\* dial jobs number at most the global cap and, for every peer, the executing
\* dial jobs number at most the per-peer cap; the limiter's counters are
\* these numbers.
C2_CapAdherence ==
    LET fd == {j \in JobIds : jobs[j].st \in Executing /\ IsFdConsuming(j[1])}
        of(p) == {j \in JobIds : jobs[j].st \in Executing /\ epeer[j[2]] = p}
    IN /\ Cardinality(fd) <= FdLimit
       /\ lim.fdConsuming = Cardinality(fd)
       /\ \A p \in AllPeers :
             /\ Cardinality(of(p)) <= PerPeerLimit
             /\ lim.activePerPeer[p] = Cardinality(of(p))

\* Both caps bind: a job is parked behind the global cap while another is
\* parked behind its peer's cap.
C2_Witness ==
    /\ lim.waitingOnFd # {}
    /\ \E p \in AllPeers : lim.waitingOnPeerLimit[p] # {}
    /\ lim.fdConsuming = FdLimit

\* C3, as amended (backoff gate): when the registry holds an entry for p with
\* until > now, a call dialPeer(p) that has found no connection to p in the
\* registry fails with ErrDialBackoff, without entering the dial sync and
\* without touching the efforts, the limiter or its jobs.
C3_BackoffGate ==
    [][ \A c \in Callers :
           (pc[c] = "backoff" /\ pc'[c] # "backoff" /\ entryActive(target[c]))
           => /\ pc'[c] = "done"
              /\ res'[c] = Fail(ErrDialBackoff)
              /\ waitOn'[c] = 0
              /\ UNCHANGED <<dials, epc, jobs, lim, backf>>
      ]_vars

\* A call to p2 was turned away while p2's entry is active.
C3_Witness ==
    \E c \in Callers :
       /\ pc[c] = "done" /\ target[c] = "p2"
       /\ res[c] = Fail(ErrDialBackoff)
       /\ entryActive("p2")

\* C3, as stated: when the registry holds an entry for p with until > now,
\* every call dialPeer(p) that leaves the facade's checks fails with
\* ErrDialBackoff.
C3_AsStated ==
    [][ \A c \in Callers :
           (/\ pc[c] \in {"bestConn", "backoff"}
            /\ pc'[c] \notin {"bestConn", "backoff"}
            /\ entryActive(target[c]))
           => pc'[c] = "done" /\ res'[c] = Fail(ErrDialBackoff)
      ]_vars

\* C4 (backoff bypass): a caller is turned away with ErrDialBackoff only
\* while a dial effort holds the peer's slot in the dial sync, so that a
\* probing dial runs whenever callers are turned away.
C4_BackoffBypass ==
    [][ \A c \in Callers :
           (pc[c] = "backoff" /\ pc'[c] = "done" /\ res'[c] = Fail(ErrDialBackoff))
           => dials[target[c]] # 0
      ]_vars

\* C5 (backoff math): after k >= 1 consecutive AddBackoff(p) without a
\* Clear(p) the entry has tries = k and until = (clock at the k-th call) +
\* min(BackoffMax, BackoffBase + BackoffCoef*(k-1)^2); after Clear(p), and
\* before any AddBackoff(p), there is no entry.
C5_BackoffMath ==
    \A p \in AllPeers :
       IF consec[p] = 0
       THEN backf[p] = NoEntry
       ELSE /\ backf[p].tries = consec[p]
            /\ backf[p].until = lastAdd[p]
                 + Min(BackoffMax,
                       BackoffBase + BackoffCoef * ((consec[p] - 1) * (consec[p] - 1)))

\* The cap binds for one peer while another, cleared and failed again, is back
\* at one try and the base duration.
C5_Witness ==
    /\ consec["p1"] >= 19
    /\ backf["p1"].until = lastAdd["p1"] + BackoffMax
    /\ consec["p2"] = 1 /\ lastAdd["p2"] > 0
    /\ backf["p2"] = [tries |-> 1, until |-> lastAdd["p2"] + BackoffBase]

C7_CancelNoBackoff ==
    [][ \A e \in Efforts :
           (/\ epc[e] = "addBackoff" /\ epc'[e] = "done"
            /\ ctxExit[e] # "no" /\ ectx[e] = "Canceled")
           => backf' = backf
      ]_vars

\* C8 (timeout does not contribute to backoff): when dialAddrs has returned
\* because the dial-peer timeout expired while address dials were pending,
\* doDial leaves the backoff registry unchanged.
C8_TimeoutNoBackoff ==
    [][ \A e \in Efforts :
           (/\ epc[e] = "addBackoff" /\ epc'[e] = "done"
            /\ ctxExit[e] = "pending" /\ ectx[e] = "DeadlineExceeded")
           => backf' = backf
      ]_vars

\* C9 (self-dial rejection): a call dialPeer(local) returns ErrDialToSelf at
\* once and changes nothing else: no effort, no limiter job, no slot of the
\* dial sync, no backoff entry, no key; and nothing of the kind ever exists
\* for the local peer.
C9_SelfDial ==
    [][ /\ \A c \in Callers :
              (pc[c] = "idle" /\ pc'[c] # "idle" /\ target'[c] = local)
              => /\ pc'[c] = "done"
                 /\ res'[c] = Fail(ErrDialToSelf)
                 /\ UNCHANGED <<backf, pubkeys, conns, dials, waitOn, epc,
                                jobs, lim>>
        /\ dials'[local] = 0
        /\ backf'[local] = NoEntry
        /\ local \notin pubkeys'
        /\ \A e \in Efforts : epeer'[e] # local
      ]_vars

\* A call dialPeer(local) has returned ErrDialToSelf.
C9_Witness ==
    \E c \in Callers :
       pc[c] = "done" /\ target[c] = local /\ res[c] = Fail(ErrDialToSelf)

\* C10 (error suppressed by a parallel connection): when dial returns an error
\* to doDial while the registry holds a connection to p, the effort ends, the
\* callers waiting on it return a connection of the registry and no error,
\* and the backoff registry is unchanged.
C10_ErrorSuppressed ==
    [][ \A e \in Efforts :
           (/\ epc[e] = "race" /\ epc'[e] # "race"
            /\ conns'[epeer[e]] = conns[epeer[e]]
            /\ conns[epeer[e]] # {})
           => /\ epc'[e] = "done"
              /\ backf' = backf
              /\ \A c \in waiters(e) :
                    /\ pc'[c] = "done" /\ res'[c].err = Nil
                    /\ res'[c].conn \in conns[epeer[e]]
      ]_vars

\* The only call, to p2, started an effort whose dial came back with an error
\* (the connection it made was closed again) and returned the connection
\* that p2 had opened to us meanwhile.
C10_Witness ==
    /\ pc[2] = "idle"
    /\ epc[1] = "done" /\ epeer[1] = "p2"
    /\ \E a \in AllAddrs : jobs[<<a, 1>>].st = "finishing"
    /\ conns["p2"] = {InboundConn("p2")}
    /\ open = {InboundConn("p2")}
    /\ \E c \in Callers : pc[c] = "done" /\ res[c] = Ok(InboundConn("p2"))

\* C11 (first success wins): when the address race of an effort receives a
\* successful result, the race returns at that step with that connection,
\* whatever other jobs of the effort are still dialing and whatever errors
\* were received before: the connection is registered and every caller that
\* waits on the effort returns it, or its registration fails and dial closes
\* it; no later result of the effort replaces it.
C11_FirstSuccessWins ==
    [][ \A e \in Efforts, j \in JobIds :
           (/\ epc[e] = "race" /\ j \in respReady(e)
            /\ jobs[j].res.err = Nil
            /\ jobs'[j].st # "posting"
            /\ ~(active' = active /\ epc' = epc))
           => LET k == jobs[j].res.conn
                  p == epeer[e]
              IN /\ epc'[e] # "race"
                 /\ \/ /\ k \in conns'[p] /\ k \in open'
                       /\ \A c \in waiters(e) : pc'[c] = "done" /\ res'[c] = Ok(k)
                    \/ /\ k \notin conns'[p] /\ k \notin open'
                       /\ ret'[e] = Fail(ErrAddConn) \/ epc'[e] = "done"
                 /\ Cardinality({x \in conns'[p] : x.eff = e}) <= 1
      ]_vars

\* The caller has the connection over a2 while the dial of a3 is still
\* running and has not returned.
C11_Witness ==
    /\ pc[1] = "done"
    /\ res[1] = Ok([remote |-> "p2", addr |-> "a2", eff |-> 1])
    /\ jobs[<<"a3", 1>>].st = "dialing"

\* C12 (identity of the returned connection): every connection a call
\* dialPeer(p) has returned, every connection of the registry under p and
\* every connection a dial job reports for p has remote peer p; a connection
\* to another peer is closed by the step that received it from the transport
\* and its job reports an error and no connection.
C12_Identity ==
    /\ \A c \in Callers :
          (pc[c] = "done" /\ res[c].conn # NoConn)
          => res[c].conn.remote = target[c] /\ res[c].err = Nil
    /\ \A p \in AllPeers : \A k \in conns[p] : k.remote = p
    /\ \A k \in open : k.remote # Stranger
    /\ \A j \in JobIds :
          /\ jobs[j].res.conn # NoConn => jobs[j].res.conn.remote = epeer[j[2]]
          /\ jobs[j].res.err # Nil => jobs[j].res.conn = NoConn

\* The transport of a3 handed back a connection to a stranger: the dial of p2
\* failed with the transport-bug error and no connection is left open.
C12_Witness ==
    \E c \in Callers :
       /\ pc[c] = "done" /\ target[c] = "p2"
       /\ res[c] = Fail(Wrap("dial attempt failed", ErrBugInTransport))
       /\ open = {}

\* The addresses the filter handed to the race of effort e (no address of the
\* race has been submitted yet).
filtered(e) == {remoteAddrs[e][i] : i \in DOMAIN remoteAddrs[e]}
raceStarts(e) == epc[e] = "race" /\ active[e] = 0 /\ remoteAddrs[e] # NilAddrs

\* C13, as amended (address filtering): for every candidate list, the output
\* of the filter contains no address equal to one of our own listen addresses
\* that consists of an /ip4 or /ip6 component and one more protocol, no
\* address the policy filter reports blocked and no address that no
\* transport can dial; it is a sub-list of the candidates, and a list that
\* the filter empties fails the dial with the no-good-addresses error.
C13_Filter ==
    /\ \A e \in Efforts :
          raceStarts(e)
          => /\ \A a \in filtered(e) :
                   /\ ~(a \in InterfaceListenAddresses /\ IsPlainIPAddr(a))
                   /\ ~AddrBlocked(a)
                   /\ canDial(a)
                   /\ \E i \in DOMAIN peerAddrs[epeer[e]] :
                         peerAddrs[epeer[e]][i] = a
             /\ remoteAddrs[e] # <<>>
    /\ \A e \in Efforts :
          (epc[e] = "addBackoff" /\ peerAddrs[epeer[e]] # <<>>)
          => /\ ret[e] = Fail(ErrNoGoodAddresses)
             /\ \A i \in DOMAIN peerAddrs[epeer[e]] :
                   LET a == peerAddrs[epeer[e]][i]
                   IN \/ a \in InterfaceListenAddresses /\ IsPlainIPAddr(a)
                      \/ AddrBlocked(a) \/ ~canDial(a) \/ ~AddrOverNonLocalIP(a)

\* The candidates were a blocked address and a good one: the race starts
\* with the good one alone.
C13_Witness ==
    /\ peerAddrs["p2"] = <<"aB", "a2">>
    /\ raceStarts(1) /\ epeer[1] = "p2"
    /\ remoteAddrs[1] = <<"a2">>

\* C13, as stated: the output of the filter contains no address equal to one
\* of our own listen addresses, whatever its protocol stack.
C13_AsStated ==
    \A e \in Efforts :
       raceStarts(e)
       => \A a \in filtered(e) :
             /\ a \notin InterfaceListenAddresses
             /\ ~AddrBlocked(a)
             /\ canDial(a)

\* C14 (all-fail outcome): while the race runs, its pending error is the
\* error of the failed result it received last, and the default
\* ErrNoRemoteAddrs before any; a race that ends by exhaustion (no address
\* left, no job outstanding) returns that error, which is the default exactly
\* when the candidate list was empty; doDial hands it on to every waiting
\* caller as "dial attempt failed: <error>".
C14_AllFail ==
    [][ \A e \in Efforts :
           /\ \A j \in JobIds :
                 (/\ epc[e] = "race" /\ j \in respReady(e)
                  /\ jobs[j].res.err # Nil
                  /\ jobs'[j].st # "posting"
                  /\ active'[e] # active[e])
                 => exitErr'[e] = jobs[j].res.err /\ epc'[e] = "race"
           /\ (epc[e] = "race" /\ epc'[e] = "race" /\ exitErr'[e] # exitErr[e])
              => \E j \in respReady(e) :
                    jobs'[j].st # "posting" /\ exitErr'[e] = jobs[j].res.err
           /\ (/\ epc[e] = "race" /\ epc'[e] # "race"
               /\ remoteAddrs[e] = NilAddrs /\ active[e] = 0)
              => /\ \/ ret'[e] = Fail(exitErr[e]) /\ epc'[e] = "addBackoff"
                    \/ epc'[e] = "done" /\ conns[epeer[e]] # {}
                 /\ exitErr[e] = ErrNoRemoteAddrs <=> peerAddrs[epeer[e]] = <<>>
                 /\ conns' = conns
           /\ (epc[e] = "addBackoff" /\ epc'[e] = "done")
              => \A c \in waiters(e) :
                    res'[c] = Fail(Wrap("dial attempt failed", ret[e].err))
      ]_vars

\* Both addresses of the list <<a2, a3>> failed, a3 first, and no caller gave
\* up: both callers have the error of a2's dial, the result received last.
C14_Witness ==
    /\ peerAddrs["p2"] = <<"a2", "a3">>
    /\ \A c \in {1, 2} :
          /\ pc[c] = "done"
          /\ res[c] = Fail(Wrap("dial attempt failed",
                                Wrap("dial attempt failed", ErrRefused("a2"))))
    /\ epc[1] = "done"

\* C15 (one backoff increment per failed effort): the tries of a peer grow
\* only in the step in which a dial effort for that peer returns its failure
\* from doDial, and then by exactly one (no entry to 1, n to n + 1), whatever
\* the number of addresses that failed and of callers that wait; an effort
\* whose failure is not an error of its context takes that step with the
\* increment, and no other peer's entry changes in it.
C15_OneIncrement ==
    [][ /\ \A p \in AllPeers :
              backf'[p].tries > backf[p].tries
              => /\ backf'[p].tries = backf[p].tries + 1
                 /\ \E e \in Efforts :
                       epeer[e] = p /\ epc[e] = "addBackoff" /\ epc'[e] = "done"
        /\ \A e \in Efforts :
              (/\ epc[e] = "addBackoff" /\ epc'[e] = "done"
               /\ ret[e].err \notin {ErrCanceled, ErrDeadlineExceeded})
              => /\ backf'[epeer[e]].tries = backf[epeer[e]].tries + 1
                 /\ \A q \in AllPeers \ {epeer[e]} : backf'[q] = backf[q]
        /\ \A e \in Efforts :
              (epc[e] \in InProgress /\ epc'[e] = "done" /\ epc[e] # "addBackoff")
              => \A q \in AllPeers : backf'[q].tries <= backf[q].tries
      ]_vars

\* Two callers shared one effort for the fresh peer p2 in which a2 was
\* refused and a3's transport misbehaved: p2's entry has tries = 1.
C15_Witness ==
    /\ \A c \in {1, 2} :
          /\ pc[c] = "done" /\ target[c] = "p2"
          /\ res[c] = Fail(Wrap("dial attempt failed", ErrBugInTransport))
    /\ epc[1] = "done" /\ epc[2] = "none"
    /\ backf["p2"].tries = 1 /\ consec["p2"] = 1

\* C16 (existing-connection short-circuit): a call dialPeer(p) that makes its
\* registry check while the registry holds a connection to p returns a
\* connection of the registry, and an effort that makes doDial's check while
\* the registry holds one ends with such a connection for every caller that
\* waits on it; in neither step is an address list fetched, a job submitted
\* or started, a connection opened, or the backoff registry, the limiter or
\* the connection registry changed.
C16_ShortCircuit ==
    [][ /\ \A c \in Callers :
              (/\ pc[c] = "bestConn" /\ pc'[c] # "bestConn"
               /\ conns[target[c]] # {})
              => /\ pc'[c] = "done" /\ res'[c].err = Nil
                 /\ res'[c].conn \in conns[target[c]]
                 /\ UNCHANGED <<dials, epc, remoteAddrs, active, jobs, lim,
                                backf, conns, open>>
        /\ \A e \in Efforts :
              (/\ epc[e] = "doDial" /\ epc'[e] # "doDial"
               /\ conns[epeer[e]] # {})
              => /\ epc'[e] = "done"
                 /\ \A c \in waiters(e) :
                       /\ pc'[c] = "done" /\ res'[c].err = Nil
                       /\ res'[c].conn \in conns[epeer[e]]
                 /\ UNCHANGED <<remoteAddrs, active, jobs, lim, backf, conns,
                                open>>
      ]_vars

\* p2 had connected to us before the first call dialPeer(p2) made its
\* registry check: the call returned that connection, no effort was started
\* and no job exists.
C16_Witness ==
    /\ pc[1] = "done" /\ target[1] = "p2"
    /\ res[1] = Ok(InboundConn("p2"))
    /\ epc[1] = "none"
    /\ \A j \in JobIds : jobs[j] = NoJobState
    /\ open = {InboundConn("p2")}

\* C17 (error chosen on cancellation): when the race of an effort returns
\* because its context is done, the error it returns is the context's own
\* error, whatever per-address error the race had received before.
C17_CtxErrPreferred ==
    [][ \A e \in Efforts :
           (/\ epc[e] = "race" /\ epc'[e] = "addBackoff"
            /\ ectx[e] # "live"
            /\ remoteAddrs[e] # NilAddrs \/ active[e] > 0
            /\ \A j \in respReady(e) : jobs'[j] = jobs[j])
           => ret'[e] = Fail(ctxErr(ectx[e]))
      ]_vars

\* C18 (race cleanup on every exit): in the step in which the race of an
\* effort for p returns, by success, exhaustion or ctx.Done, no job for p is
\* left in the limiter's queues and no job of the effort stays parked; after
\* that step a parked job always belongs to a race that still runs, and a job
\* of a race that has returned can only complete: it is not started, hands
\* no result to anyone, leaves the registry alone and closes the connection
\* it got.
C18_RaceCleanup ==
    [][ /\ \A e \in Efforts :
              (epc[e] = "race" /\ epc'[e] # "race")
              => /\ lim'.waitingOnPeerLimit[epeer[e]] = {}
                 /\ lim'.waitingOnFd \cap jobsOfPeer(epeer[e]) = {}
                 /\ \A j \in JobIds : j[2] = e => jobs'[j].st # "parked"
        /\ \A j \in JobIds :
              /\ jobs'[j].st = "parked"
                 => /\ epc'[j[2]] = "race"
                    /\ \/ j \in lim'.waitingOnFd
                       \/ j \in lim'.waitingOnPeerLimit[epeer'[j[2]]]
              /\ (epc[j[2]] # "race" /\ jobs'[j] # jobs[j])
                 => /\ jobs'[j] = NoJobState
                    /\ conns' = conns
                    /\ jobs[j].res.conn \notin open'
      ]_vars

\* The race of the effort for p2 returned on ctx.Done with jobs outstanding:
\* the dial of a2 is still running, nothing is parked and the limiter's
\* queues are empty.
C18_Witness ==
    /\ epc[1] = "addBackoff" /\ epeer[1] = "p2" /\ ctxExit[1] = "pending"
    /\ jobs[<<"a2", 1>>].st = "dialing"
    /\ \A j \in JobIds : jobs[j].st # "parked"
    /\ lim.waitingOnFd = {}
    /\ \A p \in AllPeers : lim.waitingOnPeerLimit[p] = {}

\* The open connections that are not in the registry.
unreturned == open \ UNION {conns[p] : p \in AllPeers}

\* C19 (no leaked connections): an open connection that is not registered is
\* held by a dial job that is still handing it to its race; an effort
\* registers at most one connection; and under fair scheduling every such
\* connection is in the end registered (returned) or closed, so that no
\* connection stays open and unregistered for ever.
C19_NoLeak ==
    /\ [](\A k \in unreturned :
             \E j \in JobIds : jobs[j].st = "posting" /\ jobs[j].res.conn = k)
    /\ [](\A e \in Efforts :
             Cardinality({k \in UNION {conns[p] : p \in AllPeers} : k.eff = e}) <= 1)
    /\ (unreturned # {}) ~> (unreturned = {})

\* The connection over a2 won and was returned while the dial of a3 had
\* produced a connection too: the loser still holds it.
C19_Witness ==
    /\ conns["p2"] = {[remote |-> "p2", addr |-> "a2", eff |-> 1]}
    /\ epc[1] = "done"
    /\ jobs[<<"a3", 1>>].st = "posting"
    /\ unreturned = {[remote |-> "p2", addr |-> "a3", eff |-> 1]}

\* C20 (every caller terminates): under fair scheduling, from some point on
\* no call of dialPeer is under way and no dial effort is in progress: every
\* call that was made has returned (a returned call stays returned) and
\* every effort that was started has ended, whatever dials hang and whatever
\* jobs are parked.
C20_Termination ==
    <>[](/\ \A c \in Callers : pc[c] \in {"idle", "done"}
         /\ \A e \in Efforts : epc[e] \notin InProgress)

\* The call returned with its timeout although the dial of a2 hangs and the
\* job of a1, for the other call, is parked behind it.
C20_Witness ==
    /\ pc[1] = "done" /\ res[1] = Fail(ErrDeadlineExceeded)
    /\ jobs[<<"a2", 1>>].st = "dialing"
    /\ jobs[<<"a1", 2>>].st = "parked"
====
